---- MODULE Spec2Model ----
(***************************************************************************)
(* Model of the crossword constraint-satisfaction solver                   *)
(* (src/3 Optimization/crossword/generate.py, class CrosswordCreator).     *)
(*                                                                         *)
(* One behaviour is one call of solve() on one crossword: the grid, the    *)
(* vocabulary and the iteration order of the slot set are chosen in Init;  *)
(* the actions are the steps of solve(): node consistency, the AC-3 loop   *)
(* (one popped arc per step) and the recursive backtracking search (one    *)
(* call, one tried word or one exhausted call per step).                   *)
(*                                                                         *)
(* Python indices are 0-based; a word is a tuple of letters, so the letter *)
(* at Python index k of the word w is w[k + 1].                            *)
(***************************************************************************)
EXTENDS Integers, Sequences, FiniteSets, TLC

VARIABLES
    crossword,    \* the parsed puzzle: [structure, variables, words]
    order,        \* iteration order of the dict self.domains (a sequence of slots)
    domains,      \* self.domains: slot -> set of words
    pc,           \* position in solve(): "node", "ac3_init", "ac3", "backtrack", "loop", "done"
    arcs,         \* the worklist of ac3 (a sequence of pairs of slots)
    ac3_result,   \* what self.ac3() returned: "pending", "True", "False"
    assignment,   \* the dict passed through backtrack (slot -> word, partial)
    stack,        \* the active backtrack calls that are inside their for loop:
                  \* [current_var, values (words still to try), ordered (the
                  \* list order_domain_values returned), entry (the assignment
                  \* the call was entered with)]
    result,       \* what solve() returned: [kind, value]
    fault,        \* TRUE once an exception (IndexError) was raised
    calls,        \* number of calls of backtrack so far
    trials,       \* number of tentative assignments made so far
    revisions     \* the calls of revise made by ac3 so far: [x, y, returned]

vars == <<crossword, order, domains, pc, arcs, ac3_result, assignment, stack,
          result, fault, calls, trials, revisions>>

-----------------------------------------------------------------------------
(* Bounds and inputs *)

\* largest vocabulary handed to the solver
MaxVocab == 5

CAT == <<"C", "A", "T">>
DOG == <<"D", "O", "G">>
ACT == <<"A", "C", "T">>
AT == <<"A", "T">>
IT == <<"I", "T">>
UT == <<"U", "T">>
AAH == <<"A", "A", "H">>
OH == <<"O", "H">>

\* the words a vocabulary is drawn from
WordUniverse == {CAT, DOG, ACT, AAH, AT, IT, UT, OH}

Vocabularies == {W \in SUBSET WordUniverse : Cardinality(W) <= MaxVocab}

\* Grid structures (1 = fillable cell, 0 = blocked cell), one tuple per row.
\* no slot at all
StructureEmpty == << <<0, 1>>, <<0, 0>> >>
\* one ACROSS slot of length 3
StructureOne == << <<1, 1, 1>> >>
\* ACROSS of length 3 at row 0 crossed by DOWN of length 3 at column 1
StructureCross == << <<1, 1, 1>>, <<0, 1, 0>>, <<0, 1, 0>> >>
\* two ACROSS slots of length 2 that share no cell
StructureApart == << <<1, 1>>, <<0, 0>>, <<1, 1>> >>
\* ACROSS of length 3 at row 1, crossed by DOWN of length 3 at column 1
\* and by DOWN of length 2 at column 2
StructureThree == << <<0, 0, 1>>, <<1, 1, 1>>, <<0, 1, 0>>, <<0, 1, 0>> >>

Structures == {StructureEmpty, StructureOne, StructureCross, StructureApart,
               StructureThree}

-----------------------------------------------------------------------------
(* The grid model (crossword.py): slots and the overlap relation *)

ACROSS == "across"
DOWN == "down"

\* the value None
None == <<>>

Fillable(structure, i, j) ==
    /\ i \in 0..(Len(structure) - 1)
    /\ j \in 0..(Len(structure[1]) - 1)
    /\ structure[i + 1][j + 1] = 1

RECURSIVE RunLength(_, _, _, _, _)
RunLength(structure, i, j, di, dj) ==
    IF Fillable(structure, i, j)
    THEN 1 + RunLength(structure, i + di, j + dj, di, dj)
    ELSE 0

\* every maximal horizontal or vertical run of at least two fillable cells
Variables(structure) ==
    LET H == Len(structure)
        W == Len(structure[1])
        across == {[i |-> i, j |-> j, direction |-> ACROSS,
                    length |-> RunLength(structure, i, j, 0, 1)] :
                      <<i, j>> \in {c \in (0..(H - 1)) \X (0..(W - 1)) :
                                      /\ Fillable(structure, c[1], c[2])
                                      /\ ~Fillable(structure, c[1], c[2] - 1)}}
        down == {[i |-> i, j |-> j, direction |-> DOWN,
                  length |-> RunLength(structure, i, j, 1, 0)] :
                    <<i, j>> \in {c \in (0..(H - 1)) \X (0..(W - 1)) :
                                    /\ Fillable(structure, c[1], c[2])
                                    /\ ~Fillable(structure, c[1] - 1, c[2])}}
    IN {v \in across \cup down : v.length > 1}

\* the cells of a slot, in order
Cells(v) ==
    [k \in 1..v.length |->
        <<v.i + (IF v.direction = DOWN THEN k - 1 ELSE 0),
          v.j + (IF v.direction = ACROSS THEN k - 1 ELSE 0)>>]

\* crossword.overlaps, as Crossword.__init__ computes it: for each pair of
\* slots None, or the 0-based offsets of the shared cell
Overlaps(variables) ==
    [pair \in variables \X variables |->
        LET v1 == pair[1]
            v2 == pair[2]
            shared == {p \in (1..v1.length) \X (1..v2.length) :
                          Cells(v1)[p[1]] = Cells(v2)[p[2]]}
        IN IF v1 = v2 \/ shared = {}
           THEN None
           ELSE LET p == CHOOSE q \in shared : TRUE IN <<p[1] - 1, p[2] - 1>>]

\* Crossword(structure_file, words_file)
Crossword(structure, words) ==
    [structure |-> structure,
     variables |-> Variables(structure),
     words |-> words,
     overlaps |-> Overlaps(Variables(structure))]

\* crossword.overlaps[v1, v2]
Overlap(v1, v2) == crossword.overlaps[<<v1, v2>>]

\* crossword.neighbors(var)
Neighbors(var) ==
    {v \in crossword.variables : v # var /\ Overlap(v, var) # None}

-----------------------------------------------------------------------------
(* Helpers for Python containers *)

\* every order in which a set can be enumerated
Orderings(S) ==
    {p \in [1..Cardinality(S) -> S] : \A a, b \in 1..Cardinality(S) : a # b => p[a] # p[b]}

\* itertools.combinations(list, 2), as a list
RECURSIVE Combinations2(_)
Combinations2(list) ==
    IF Len(list) <= 1
    THEN <<>>
    ELSE [k \in 1..(Len(list) - 1) |-> <<list[1], list[k + 1]>>]
            \o Combinations2(Tail(list))

\* the empty dict
EmptyDict == [v \in {} |-> None]

\* k is a valid index of the word w
InRange(w, k) == k >= 0 /\ k < Len(w)

-----------------------------------------------------------------------------
(* CrosswordCreator *)

TypeOK ==
    /\ crossword.structure \in Structures
    /\ crossword.words \in Vocabularies
    /\ order \in Orderings(crossword.variables)
    /\ domains \in [crossword.variables -> SUBSET WordUniverse]
    /\ pc \in {"node", "ac3_init", "ac3", "backtrack", "loop", "done",
              "consistent", "returned"}
    /\ ac3_result \in {"pending", "True", "False"}
    /\ DOMAIN assignment \subseteq crossword.variables
    /\ fault \in BOOLEAN
    /\ calls \in Nat
    /\ trials \in Nat
    /\ \A k \in 1..Len(revisions) :
          /\ revisions[k].x \in crossword.variables
          /\ revisions[k].y \in crossword.variables
          /\ revisions[k].returned \in BOOLEAN

\* __init__: every slot starts with a copy of the whole vocabulary
Init ==
    /\ \E structure \in Structures, words \in Vocabularies :
          crossword = Crossword(structure, words)
    /\ order \in Orderings(crossword.variables)
    /\ domains = [var \in crossword.variables |-> crossword.words]
    /\ pc = "node"
    /\ arcs = <<>>
    /\ ac3_result = "pending"
    /\ assignment = EmptyDict
    /\ stack = <<>>
    /\ result = [kind |-> "pending", value |-> EmptyDict]
    /\ fault = FALSE
    /\ calls = 0
    /\ trials = 0
    /\ revisions = <<>>

\* mutant of node_consistent: the test is len(word) > v.length
node_consistent_keeps_shorter(v, words) == {word \in words : Len(word) <= v.length}

\* mutant of node_consistent: the test is len(word) < v.length
node_consistent_keeps_longer(v, words) == {word \in words : Len(word) >= v.length}

\* the domain of v after enforce_node_consistency
node_consistent(v, words) == {word \in words : Len(word) = v.length}

\* enforce_node_consistency, called first by solve()
EnforceNodeConsistency ==
    /\ pc = "node"
    /\ domains' = [v \in crossword.variables |-> node_consistent(v, domains[v])]
    /\ pc' = "ac3_init"
    /\ UNCHANGED <<crossword, order, arcs, ac3_result, assignment, stack,
                   result, fault, calls, trials, revisions>>

\* the lookups word_x[i] == word_y[j] of revise, where both indices are valid
Agree(word_x, i, word_y, j) ==
    /\ InRange(word_x, i)
    /\ InRange(word_y, j)
    /\ word_x[i + 1] = word_y[j + 1]

\* mutant of remove_from_x: the two overlap offsets are swapped
remove_from_x_swapped(x, y) ==
    LET i == Overlap(x, y)[1]
        j == Overlap(x, y)[2]
    IN {word_x \in domains[x] :
          ~\E word_y \in domains[y] :
              Agree(word_x, j, word_y, i) /\ word_x # word_y}

\* mutant of remove_from_x: an identical word counts as support
remove_from_x_self_support(x, y) ==
    LET i == Overlap(x, y)[1]
        j == Overlap(x, y)[2]
    IN {word_x \in domains[x] :
          ~\E word_y \in domains[y] : Agree(word_x, i, word_y, j)}

\* revise: the words of domains[x] that no other word of domains[y] supports
remove_from_x(x, y) ==
    LET i == Overlap(x, y)[1]
        j == Overlap(x, y)[2]
    IN {word_x \in domains[x] :
          ~\E word_y \in domains[y] :
              Agree(word_x, i, word_y, j) /\ word_x # word_y}

\* mutant of revise: the new domains[x] is built from the supporting words
\* of domains[y] instead of the supported words of domains[x]
revise_keeps_y(x, y) ==
    IF Overlap(x, y) = None
    THEN [revised |-> FALSE, domain |-> domains[x]]
    ELSE LET kept == {word_y \in domains[y] :
                        \E word_x \in domains[x] :
                            /\ Agree(word_x, Overlap(x, y)[1], word_y, Overlap(x, y)[2])
                            /\ word_x # word_y}
         IN [revised |-> kept # domains[x], domain |-> kept]

\* mutant of revise: True is returned whether or not a word was removed
revise_always_reports(x, y) ==
    IF Overlap(x, y) = None
    THEN [revised |-> FALSE, domain |-> domains[x]]
    ELSE [revised |-> TRUE, domain |-> domains[x] \ remove_from_x(x, y)]

\* revise(x, y): the value returned and the new domains[x]
revise(x, y) ==
    IF Overlap(x, y) = None
    THEN [revised |-> FALSE, domain |-> domains[x]]
    ELSE [revised |-> remove_from_x(x, y) # {},
          domain |-> domains[x] \ remove_from_x(x, y)]

\* revise(x, y) can raise IndexError: some enumeration order of domains[y]
\* reaches a lookup word_x[i] or word_y[j] past the end of the word
revise_may_raise(x, y) ==
    /\ Overlap(x, y) # None
    /\ domains[y] # {}
    /\ \E word_x \in domains[x] :
          \/ ~InRange(word_x, Overlap(x, y)[1])
          \/ \E word_y \in domains[y] : ~InRange(word_y, Overlap(x, y)[2])

\* revise(x, y) raises IndexError in every enumeration order of domains[y]:
\* the inner loop stops early only at a supporting word
revise_must_raise(x, y) ==
    /\ Overlap(x, y) # None
    /\ domains[y] # {}
    /\ \E word_x \in domains[x] :
          \/ ~InRange(word_x, Overlap(x, y)[1])
          \/ /\ \E word_y \in domains[y] : ~InRange(word_y, Overlap(x, y)[2])
             /\ ~\E word_y \in domains[y] :
                   /\ Agree(word_x, Overlap(x, y)[1], word_y, Overlap(x, y)[2])
                   /\ word_x # word_y

\* whether a call of revise(x, y) raises: TRUE and/or FALSE
revise_raises(x, y) ==
    {b \in BOOLEAN : IF b THEN revise_may_raise(x, y) ELSE ~revise_must_raise(x, y)}

\* mutant of solve_after_ac3: solve() returns None when ac3 returned False
solve_returns_on_failure(returned) ==
    IF returned = "False"
    THEN [pc |-> "done", result |-> [kind |-> "None", value |-> EmptyDict]]
    ELSE [pc |-> "backtrack", result |-> result]

\* solve, lines 92-93: where solve() goes on once self.ac3() has returned, and
\* what it has returned by then; the value ac3 returned is not looked at
solve_after_ac3(returned) == [pc |-> "backtrack", result |-> result]

\* ac3(arcs=None): the initial worklist
initial_arcs == Combinations2(order)

\* ac3, lines 160-162: solve() calls ac3 with no worklist
Ac3Init ==
    /\ pc = "ac3_init"
    /\ arcs' = initial_arcs
    /\ pc' = "ac3"
    /\ UNCHANGED <<crossword, order, domains, ac3_result, assignment, stack,
                   result, fault, calls, trials, revisions>>

\* mutant of enqueued: the test neighbor == current_arc[1] is missing
enqueued_with_y(x, y) ==
    {[k \in 1..Len(nb) |-> <<nb[k], x>>] : nb \in Orderings(Neighbors(x))}

\* the arcs appended after revise(x, y) shrank domains[x], for one enumeration
\* order of crossword.neighbors(x)
enqueued(x, y) ==
    {[k \in 1..Len(nb) |-> <<nb[k], x>>] : nb \in Orderings(Neighbors(x) \ {y})}

\* ac3, one iteration of the while loop: pop an arc and revise it
Ac3Step ==
    /\ pc = "ac3"
    /\ arcs # <<>>
    /\ LET x == Head(arcs)[1]
           y == Head(arcs)[2]
       IN \E raises \in revise_raises(x, y) :
            IF raises
            THEN /\ fault' = TRUE
                 /\ pc' = "done"
                 /\ result' = [kind |-> "raised", value |-> EmptyDict]
                 /\ UNCHANGED <<domains, arcs, ac3_result, revisions>>
            ELSE /\ domains' = [domains EXCEPT ![x] = revise(x, y).domain]
                 /\ revisions' = Append(revisions,
                                    [x |-> x, y |-> y,
                                     returned |-> revise(x, y).revised])
                 /\ IF revise(x, y).revised
                    THEN IF revise(x, y).domain = {}
                         THEN /\ ac3_result' = "False"
                              /\ pc' = solve_after_ac3("False").pc
                              /\ result' = solve_after_ac3("False").result
                              /\ arcs' = Tail(arcs)
                         ELSE /\ \E more \in enqueued(x, y) :
                                    arcs' = Tail(arcs) \o more
                              /\ UNCHANGED <<ac3_result, pc, result>>
                    ELSE /\ arcs' = Tail(arcs)
                         /\ UNCHANGED <<ac3_result, pc, result>>
                 /\ UNCHANGED fault
    /\ UNCHANGED <<crossword, order, assignment, stack, calls, trials>>

\* ac3, the while loop ends with an empty worklist: return True
Ac3Return ==
    /\ pc = "ac3"
    /\ arcs = <<>>
    /\ ac3_result' = "True"
    /\ pc' = solve_after_ac3("True").pc
    /\ result' = solve_after_ac3("True").result
    /\ UNCHANGED <<crossword, order, domains, arcs, assignment, stack,
                   fault, calls, trials, revisions>>

\* assignment_complete
assignment_complete(a) == \A v \in crossword.variables : v \in DOMAIN a

\* mutant of consistent: the overlaps of assigned neighbors are not compared
consistent_ignores_overlaps(a) ==
    /\ \A v \in DOMAIN a : Len(a[v]) = v.length
    /\ \A v1, v2 \in DOMAIN a : v1 # v2 => a[v1] # a[v2]

\* mutant of consistent: a word may be used by two slots
consistent_allows_reuse(a) ==
    /\ \A v \in DOMAIN a : Len(a[v]) = v.length
    /\ \A v \in DOMAIN a :
          \A neighbor \in Neighbors(v) :
              \/ neighbor \notin DOMAIN a
              \/ Overlap(v, neighbor) = None
              \/ a[v][Overlap(v, neighbor)[1] + 1]
                     = a[neighbor][Overlap(v, neighbor)[2] + 1]

\* mutant of consistent: the first letters are compared, not the letters at
\* the overlap
consistent_first_letters(a) ==
    /\ \A v \in DOMAIN a : Len(a[v]) = v.length
    /\ \A v1, v2 \in DOMAIN a : v1 # v2 => a[v1] # a[v2]
    /\ \A v \in DOMAIN a :
          \A neighbor \in Neighbors(v) :
              \/ neighbor \notin DOMAIN a
              \/ Overlap(v, neighbor) = None
              \/ a[v][1] = a[neighbor][1]

\* mutant of consistent: a neighbor that is not assigned counts as a conflict
consistent_requires_neighbors(a) ==
    /\ \A v \in DOMAIN a : Len(a[v]) = v.length
    /\ \A v1, v2 \in DOMAIN a : v1 # v2 => a[v1] # a[v2]
    /\ \A v \in DOMAIN a :
          \A neighbor \in Neighbors(v) :
              /\ neighbor \in DOMAIN a
              /\ \/ Overlap(v, neighbor) = None
                 \/ a[v][Overlap(v, neighbor)[1] + 1]
                        = a[neighbor][Overlap(v, neighbor)[2] + 1]

\* consistent: word lengths, unique words, then the overlaps of assigned neighbors
consistent(a) ==
    /\ \A v \in DOMAIN a : Len(a[v]) = v.length
    /\ \A v1, v2 \in DOMAIN a : v1 # v2 => a[v1] # a[v2]
    /\ \A v \in DOMAIN a :
          \A neighbor \in Neighbors(v) :
              \/ neighbor \notin DOMAIN a
              \/ Overlap(v, neighbor) = None
              \/ a[v][Overlap(v, neighbor)[1] + 1]
                     = a[neighbor][Overlap(v, neighbor)[2] + 1]

\* mutant of eliminations: the words of assigned neighbors are counted too
eliminations_counts_assigned(var, a, word) ==
    Cardinality({p \in Neighbors(var) \X WordUniverse :
                    /\ p[2] \in domains[p[1]]
                    /\ \/ word = p[2]
                       \/ ~Agree(word, Overlap(var, p[1])[1],
                                 p[2], Overlap(var, p[1])[2])})

\* order_domain_values: eliminations_per_word[word]
eliminations(var, a, word) ==
    Cardinality({p \in (Neighbors(var) \ DOMAIN a) \X WordUniverse :
                    /\ p[2] \in domains[p[1]]
                    /\ \/ word = p[2]
                       \/ ~Agree(word, Overlap(var, p[1])[1],
                                 p[2], Overlap(var, p[1])[2])})

\* order_domain_values raises IndexError: a lookup past the end of a word
order_domain_values_raises(var, a) ==
    \E word \in domains[var], neighbor \in Neighbors(var) \ DOMAIN a :
        \E neighbor_word \in domains[neighbor] :
            /\ word # neighbor_word
            /\ \/ ~InRange(word, Overlap(var, neighbor)[1])
               \/ ~InRange(neighbor_word, Overlap(var, neighbor)[2])

\* order_domain_values: the lists sorted() can return; the sort is stable, so
\* words with equal counts keep the enumeration order of the set domains[var]
order_domain_values(var, a) ==
    {p \in Orderings(domains[var]) :
        \A m, n \in 1..Len(p) :
            m < n => eliminations(var, a, p[m]) <= eliminations(var, a, p[n])}

\* select_unassigned_variable, line 245
remaining_vars(a) == SelectSeq(order, LAMBDA var : var \notin DOMAIN a)

\* mutant of min_domain_scan: a smaller domain size does not reset
\* min_domain_indexes
RECURSIVE min_domain_scan_no_reset(_, _, _, _)
min_domain_scan_no_reset(remaining, v, min_domain_size, min_domain_indexes) ==
    IF v >= Len(remaining)
    THEN min_domain_indexes
    ELSE LET size == Cardinality(domains[remaining[v + 1]])
         IN IF size < min_domain_size
            THEN min_domain_scan_no_reset(remaining, v + 1, size,
                                          Append(min_domain_indexes, v))
            ELSE IF size = min_domain_size
                 THEN min_domain_scan_no_reset(remaining, v + 1, min_domain_size,
                                               Append(min_domain_indexes, v))
                 ELSE min_domain_scan_no_reset(remaining, v + 1, min_domain_size,
                                               min_domain_indexes)

\* select_unassigned_variable, lines 248-257: the loop over remaining_vars,
\* from index v on, with the running min_domain_size and min_domain_indexes
RECURSIVE min_domain_scan(_, _, _, _)
min_domain_scan(remaining, v, min_domain_size, min_domain_indexes) ==
    IF v >= Len(remaining)
    THEN min_domain_indexes
    ELSE LET size == Cardinality(domains[remaining[v + 1]])
         IN IF size < min_domain_size
            THEN min_domain_scan(remaining, v + 1, size, <<v>>)
            ELSE IF size = min_domain_size
                 THEN min_domain_scan(remaining, v + 1, min_domain_size,
                                      Append(min_domain_indexes, v))
                 ELSE min_domain_scan(remaining, v + 1, min_domain_size,
                                      min_domain_indexes)

\* select_unassigned_variable, lines 266-270: the loop over num_neighbors,
\* from index i on, with the running max_neighbors_index
RECURSIVE max_neighbors_scan(_, _, _)
max_neighbors_scan(num_neighbors, i, max_neighbors_index) ==
    IF i >= Len(num_neighbors)
    THEN max_neighbors_index
    ELSE max_neighbors_scan(num_neighbors, i + 1,
                            IF num_neighbors[i + 1] > max_neighbors_index
                            THEN i
                            ELSE max_neighbors_index)

\* mutant of select_among: the first remaining slot, whatever its domain
select_among_first(remaining) == remaining[1]

\* select_unassigned_variable, lines 247-272: the slot returned for the
\* list remaining_vars, which is not empty
select_among(remaining) ==
    LET min_domain_indexes ==
            min_domain_scan(remaining, 0, Cardinality(domains[remaining[1]]), <<0>>)
        num_neighbors ==
            [k \in 1..Len(min_domain_indexes) |->
                Cardinality(Neighbors(remaining[min_domain_indexes[k] + 1]))]
        max_neighbors_index == max_neighbors_scan(num_neighbors, 0, 0)
    IN IF Len(min_domain_indexes) = 1
       THEN remaining[min_domain_indexes[1] + 1]
       ELSE remaining[min_domain_indexes[max_neighbors_index + 1] + 1]

\* select_unassigned_variable; remaining_vars(a) is not empty
select_unassigned_variable(a) == select_among(remaining_vars(a))

\* assignment[var] = word
Assign(a, var, word) ==
    [v \in DOMAIN a \cup {var} |-> IF v = var THEN word ELSE a[v]]

\* mutant of Pop: the entry stays in the dict
Pop_keeps(a, var) == a

\* assignment.pop(var)
Pop(a, var) == [v \in DOMAIN a \ {var} |-> a[v]]

\* a call of backtrack(assignment): return a complete assignment, or select
\* a slot, order its words and enter the for loop
Backtrack ==
    /\ pc = "backtrack"
    /\ calls' = calls + 1
    /\ IF assignment_complete(assignment)
       THEN /\ result' = [kind |-> "assignment", value |-> assignment]
            /\ pc' = "done"
            /\ stack' = <<>>
            /\ UNCHANGED fault
       ELSE IF \/ remaining_vars(assignment) = <<>>
               \/ order_domain_values_raises(
                      select_unassigned_variable(assignment), assignment)
            THEN /\ fault' = TRUE
                 /\ pc' = "done"
                 /\ result' = [kind |-> "raised", value |-> EmptyDict]
                 /\ UNCHANGED stack
            ELSE /\ \E values \in order_domain_values(
                          select_unassigned_variable(assignment), assignment) :
                       stack' = Append(stack,
                                  [current_var |-> select_unassigned_variable(assignment),
                                   values |-> values,
                                   ordered |-> values,
                                   entry |-> assignment])
                 /\ pc' = "loop"
                 /\ UNCHANGED <<result, fault>>
    /\ UNCHANGED <<crossword, order, domains, arcs, ac3_result, assignment, trials,
                   revisions>>

\* mutant of BacktrackTry: a word that is not consistent is also removed from
\* the domain of the selected slot
BacktrackTry_prunes ==
    /\ pc = "loop"
    /\ stack[Len(stack)].values # <<>>
    /\ LET frame == stack[Len(stack)]
           tried == Assign(assignment, frame.current_var, Head(frame.values))
       IN /\ stack' = [stack EXCEPT ![Len(stack)].values = Tail(frame.values)]
          /\ IF consistent(tried)
             THEN /\ assignment' = tried
                  /\ pc' = "backtrack"
                  /\ UNCHANGED domains
             ELSE /\ assignment' = Pop(tried, frame.current_var)
                  /\ pc' = "loop"
                  /\ domains' = [domains EXCEPT ![frame.current_var] =
                                     @ \ {Head(frame.values)}]
    /\ trials' = trials + 1
    /\ UNCHANGED <<crossword, order, arcs, ac3_result, result, fault, calls,
                   revisions>>

\* backtrack, one iteration of the for loop: assign the next word; recurse if
\* the assignment is consistent, else remove the word again
BacktrackTry ==
    /\ pc = "loop"
    /\ stack[Len(stack)].values # <<>>
    /\ LET frame == stack[Len(stack)]
           tried == Assign(assignment, frame.current_var, Head(frame.values))
       IN /\ stack' = [stack EXCEPT ![Len(stack)].values = Tail(frame.values)]
          /\ IF consistent(tried)
             THEN /\ assignment' = tried
                  /\ pc' = "backtrack"
             ELSE /\ assignment' = Pop(tried, frame.current_var)
                  /\ pc' = "loop"
    /\ trials' = trials + 1
    /\ UNCHANGED <<crossword, order, domains, arcs, ac3_result, result, fault, calls,
                   revisions>>

\* backtrack, the for loop is exhausted: return None; the caller, if any,
\* removes its tentative word and goes on with its own loop
BacktrackExhausted ==
    /\ pc = "loop"
    /\ stack[Len(stack)].values = <<>>
    /\ stack' = SubSeq(stack, 1, Len(stack) - 1)
    /\ IF Len(stack) = 1
       THEN /\ result' = [kind |-> "None", value |-> EmptyDict]
            /\ pc' = "done"
            /\ UNCHANGED assignment
       ELSE /\ assignment' = Pop(assignment, stack[Len(stack) - 1].current_var)
            /\ pc' = "loop"
            /\ UNCHANGED result
    /\ UNCHANGED <<crossword, order, domains, arcs, ac3_result, fault, calls, trials,
                   revisions>>

Next ==
    \/ EnforceNodeConsistency
    \/ Ac3Init
    \/ Ac3Step
    \/ Ac3Return
    \/ Backtrack
    \/ BacktrackTry
    \/ BacktrackExhausted

Spec == Init /\ [][Next]_vars

-----------------------------------------------------------------------------
(* ac3 on its own: a call ac3(arcs) with any initial worklist *)

\* longest initial worklist handed to ac3
MaxArcs == 2

\* the lists of at most MaxArcs arcs (x, y) with x # y
Worklists ==
    UNION {[1..n -> {p \in crossword.variables \X crossword.variables : p[1] # p[2]}] :
             n \in 0..MaxArcs}

\* a node-consistent solver on which ac3 is called, with arcs=None or with
\* a worklist
Ac3CallInit ==
    /\ \E structure \in Structures, words \in Vocabularies :
          crossword = Crossword(structure, words)
    /\ domains = [var \in crossword.variables |->
                     node_consistent(var, crossword.words)]
    /\ \/ /\ pc = "ac3_init"
          /\ order \in Orderings(crossword.variables)
          /\ arcs = <<>>
       \/ /\ pc = "ac3"
          /\ order = CHOOSE p \in Orderings(crossword.variables) : TRUE
          /\ arcs \in Worklists
    /\ ac3_result = "pending"
    /\ assignment = EmptyDict
    /\ stack = <<>>
    /\ result = [kind |-> "pending", value |-> EmptyDict]
    /\ fault = FALSE
    /\ calls = 0
    /\ trials = 0
    /\ revisions = <<>>

Ac3Next ==
    \/ Ac3Init
    \/ Ac3Step
    \/ Ac3Return

\* ac3 runs to its return: the interpreter always takes the next step
Ac3Spec == Ac3CallInit /\ [][Ac3Next]_vars /\ WF_vars(Ac3Next)

-----------------------------------------------------------------------------
(* consistent on its own: a call consistent(assignment) with any assignment *)

\* every dict from some of the slots to words of the vocabulary
Assignments ==
    UNION {[S -> crossword.words] : S \in SUBSET crossword.variables}

\* a node-consistent solver on which consistent is called with any dict
ConsistentCallInit ==
    /\ \E structure \in Structures, words \in Vocabularies :
          crossword = Crossword(structure, words)
    /\ order = CHOOSE p \in Orderings(crossword.variables) : TRUE
    /\ domains = [var \in crossword.variables |->
                     node_consistent(var, crossword.words)]
    /\ pc = "consistent"
    /\ arcs = <<>>
    /\ ac3_result = "pending"
    /\ assignment \in Assignments
    /\ stack = <<>>
    /\ result = [kind |-> "pending", value |-> EmptyDict]
    /\ fault = FALSE
    /\ calls = 0
    /\ trials = 0
    /\ revisions = <<>>

\* consistent(assignment) returns True or False
ConsistentCall ==
    /\ pc = "consistent"
    /\ result' = [kind |-> IF consistent(assignment) THEN "True" ELSE "False",
                  value |-> assignment]
    /\ pc' = "returned"
    /\ UNCHANGED <<crossword, order, domains, arcs, ac3_result, assignment,
                   stack, fault, calls, trials, revisions>>

ConsistentNext == ConsistentCall

ConsistentSpec == ConsistentCallInit /\ [][ConsistentNext]_vars

-----------------------------------------------------------------------------
(* Properties *)

\* solve() has returned (or raised)
Done == pc = "done"

Returned(kind) == Done /\ result.kind = kind

\* the assignment f is complete and globally consistent for the crossword
GloballyConsistent(f) ==
    /\ DOMAIN f = crossword.variables
    /\ \A v \in crossword.variables :
          f[v] \in crossword.words /\ Len(f[v]) = v.length
    /\ \A v1, v2 \in crossword.variables : v1 # v2 => f[v1] # f[v2]
    /\ \A v1, v2 \in crossword.variables :
          Overlap(v1, v2) # None =>
              f[v1][Overlap(v1, v2)[1] + 1] = f[v2][Overlap(v1, v2)[2] + 1]

\* every consistent complete assignment over the original vocabulary
Solutions ==
    {f \in [crossword.variables -> crossword.words] : GloballyConsistent(f)}

\* the words of the vocabulary that fit the slot v
Fitting(v) == {w \in crossword.words : Len(w) = v.length}

\* the unassigned slots whose domain has the minimum size
MinimumRemaining ==
    {v \in crossword.variables \ DOMAIN assignment :
        \A u \in crossword.variables \ DOMAIN assignment :
            Cardinality(domains[v]) <= Cardinality(domains[u])}

\* the slot selected by the backtrack call that is in its for loop
Selected == stack[Len(stack)].current_var

\* C1: any assignment returned by solve() maps every slot to a word of the
\* slot's length, uses no word twice and agrees at every overlap.
C1_BacktrackingSoundness ==
    Returned("assignment") => GloballyConsistent(result.value)

\* C1 witness: solve() returned an assignment for the grid of three slots
C1_Witness ==
    /\ Returned("assignment")
    /\ Cardinality(crossword.variables) = 3

\* C2: node consistency and ac3 never remove a word that is part of a
\* solution from its slot's domain (the domains are those the search starts
\* with), and solve() returns an assignment whenever a solution exists
\* (so it returns None only when there is none).
C2_BacktrackingCompleteness ==
    /\ calls = 0 =>
          \A f \in Solutions : \A v \in crossword.variables : f[v] \in domains[v]
    /\ (Done /\ Solutions # {}) => result.kind = "assignment"
    /\ Returned("None") => Solutions = {}

\* C2 witness: a solution was returned after ac3 had pruned a domain and
\* the search had rejected a candidate word
C2_Witness ==
    /\ Returned("assignment")
    /\ \E v \in crossword.variables : domains[v] # Fitting(v)
    /\ trials > Cardinality(crossword.variables)

\* C3: once ac3() has returned True, every word of every slot has a
\* different supporting word in the domain of each neighboring slot.
C3_ArcConsistentAfterAc3 ==
    ac3_result = "True" =>
        \A x \in crossword.variables : \A y \in Neighbors(x) :
            \A wx \in domains[x] : \E wy \in domains[y] :
                /\ wy # wx
                /\ Agree(wx, Overlap(x, y)[1], wy, Overlap(x, y)[2])

\* C4: from the return of enforce_node_consistency() on, every word of
\* every domain has the length of its slot.
C4_NodeConsistency ==
    pc # "node" =>
        \A s \in crossword.variables : \A w \in domains[s] : Len(w) = s.length

\* C4 witness: the search is running on a crossed grid whose vocabulary
\* has words of two lengths
C4_Witness ==
    /\ pc = "loop"
    /\ \E v \in crossword.variables : Neighbors(v) # {} /\ domains[v] # {}
    /\ \E w1, w2 \in crossword.words : Len(w1) # Len(w2)

\* C5: every step leaves every domain a subset of what it was, and every
\* domain is always a subset of the vocabulary.
C5_DomainsOnlyShrink ==
    /\ [](\A s \in crossword.variables : domains[s] \subseteq crossword.words)
    /\ [][\A s \in crossword.variables : domains'[s] \subseteq domains[s]]_vars

\* C5 witness: the search starts with a domain that revise has shrunk
\* and that node consistency had shrunk before
C5_Witness ==
    /\ pc = "backtrack"
    /\ \E v \in crossword.variables :
          /\ domains[v] # Fitting(v)
          /\ Fitting(v) # crossword.words

ScenarioC ==
    /\ \E v1, v2 \in crossword.variables :
          /\ v1 # v2
          /\ Overlap(v1, v2) = None
          /\ v1.length = v2.length
          /\ Cardinality(Fitting(v1)) = 1
    /\ \E f \in [crossword.variables -> crossword.words] :
          /\ \A v \in crossword.variables : Len(f[v]) = v.length
          /\ \A v1, v2 \in crossword.variables :
                Overlap(v1, v2) # None =>
                    f[v1][Overlap(v1, v2)[1] + 1] = f[v2][Overlap(v1, v2)[2] + 1]

\* C7: with two non-overlapping slots of one length and a single word of
\* that length in the vocabulary, solve() returns no-solution.
C7_UniquenessAcrossAllSlots ==
    (Done /\ ScenarioC) => result.kind = "None"

\* C7 witness: scenario C was solved, and the search had tried the word
\* for both slots
C7_Witness ==
    /\ Done
    /\ ScenarioC
    /\ trials >= 2

\* C8: no step of solve() raises, and solve() ends with a complete
\* slot-to-word mapping or with None.
C8_NoFault ==
    /\ ~fault
    /\ Done =>
          \/ result.kind = "None"
          \/ result.kind = "assignment" /\ DOMAIN result.value = crossword.variables

\* C8 witness: solve() ended on a crossed grid whose vocabulary has a
\* word too short to reach an overlap offset
C8_Witness ==
    /\ Done
    /\ \E v1, v2 \in crossword.variables :
          /\ Overlap(v1, v2) # None
          /\ \E w \in crossword.words : Len(w) <= Overlap(v1, v2)[1]

\* C9: the selected slot has the most neighbors among the unassigned
\* slots that share the minimum domain size.
C9_DegreeTieBreak ==
    pc = "loop" =>
        \A v \in MinimumRemaining :
            Cardinality(Neighbors(v)) <= Cardinality(Neighbors(Selected))

\* C10: the selected slot is unassigned and no unassigned slot has a
\* smaller domain.
C10_MinimumRemainingValues ==
    pc = "loop" =>
        /\ Selected \notin DOMAIN assignment
        /\ Selected \in MinimumRemaining

\* C10 witness: a slot was selected on the tie-break path, out of several
\* slots of minimum domain size, while another slot has a larger domain
C10_Witness ==
    /\ pc = "loop"
    /\ Cardinality(MinimumRemaining) >= 2
    /\ (crossword.variables \ DOMAIN assignment) # MinimumRemaining

\* the (neighbor, neighbor-word) pairs that the word rules out for the
\* unassigned neighbors of var under the assignment a
RuledOut(var, a, word) ==
    UNION {{<<n, nw>> : nw \in {w \in domains[n] :
                                   \/ w = word
                                   \/ word[Overlap(var, n)[1] + 1]
                                          # w[Overlap(var, n)[2] + 1]}} :
             n \in Neighbors(var) \ DOMAIN a}

\* C11: the list order_domain_values returned holds every word of
\* domains[var] exactly once, in non-decreasing order of the number of
\* pairs it rules out for the unassigned neighbors.
C11_LeastConstrainingOrder ==
    \A k \in 1..Len(stack) :
        LET var == stack[k].current_var
            a == stack[k].entry
            ordered == stack[k].ordered
        IN /\ Len(ordered) = Cardinality(domains[var])
           /\ {ordered[m] : m \in 1..Len(ordered)} = domains[var]
           /\ \A m, n \in 1..Len(ordered) :
                 m < n => Cardinality(RuledOut(var, a, ordered[m]))
                             <= Cardinality(RuledOut(var, a, ordered[n]))

\* C11 witness: a slot with an assigned and an unassigned neighbor had its
\* words ordered, and the first and the last word rule out different numbers
C11_Witness ==
    /\ pc = "loop"
    /\ LET var == Selected
           a == stack[Len(stack)].entry
           ordered == stack[Len(stack)].ordered
       IN /\ Neighbors(var) \cap DOMAIN a # {}
          /\ Neighbors(var) \ DOMAIN a # {}
          /\ Len(ordered) >= 2
          /\ Cardinality(RuledOut(var, a, ordered[1]))
                < Cardinality(RuledOut(var, a, ordered[Len(ordered)]))

\* the ordered pairs of distinct slots
OrderedPairs ==
    {p \in crossword.variables \X crossword.variables : p[1] # p[2]}

\* the arcs ac3 has revised so far
Revised == {<<revisions[k].x, revisions[k].y>> : k \in 1..Len(revisions)}

\* C12: the worklist ac3 starts with holds every ordered pair of distinct
\* slots, and when ac3 returns True each of them has been revised.
C12_AllOrderedPairsSeeded ==
    /\ (pc = "ac3" /\ revisions = <<>>) =>
          OrderedPairs \subseteq {arcs[k] : k \in 1..Len(arcs)}
    /\ ac3_result = "True" => OrderedPairs \subseteq Revised

\* C13: ac3 returns True only if no domain is empty at that moment, and
\* returns False if some domain is empty.
C13_Ac3ReturnReflectsDomains ==
    /\ ac3_result = "True" => \A v \in crossword.variables : domains[v] # {}
    /\ ac3_result = "False" => \E v \in crossword.variables : domains[v] = {}

\* the words of domains[x] that have a different word in domains[y] with
\* the same letter at the overlap of the crossing slots x and y
Supported(x, y) ==
    {wx \in domains[x] :
        \E wy \in domains[y] :
            /\ wx # wy
            /\ wx[Overlap(x, y)[1] + 1] = wy[Overlap(x, y)[2] + 1]}

\* C14: a call revise(x, y) leaves in domains[x] exactly the supported
\* words when x and y cross and all of domains[x] when they do not,
\* changes no other domain, and returns True iff it removed a word.
C14_ReviseContract ==
    [][revisions' # revisions =>
          LET x == Head(arcs)[1]
              y == Head(arcs)[2]
              call == revisions'[Len(revisions')]
              kept == IF Overlap(x, y) = None THEN domains[x] ELSE Supported(x, y)
          IN /\ call.x = x /\ call.y = y
             /\ domains'[x] = kept
             /\ \A v \in crossword.variables \ {x} : domains'[v] = domains[v]
             /\ call.returned = (kept # domains[x])
             /\ Overlap(x, y) = None => ~call.returned]_vars

\* C14 witness: ac3 has made a call of revise that returned True and a call
\* for two slots that do not cross
C14_Witness ==
    \E m, n \in 1..Len(revisions) :
        /\ revisions[m].returned
        /\ Overlap(revisions[n].x, revisions[n].y) = None

\* C15: after ac3 has revised the popped arc (x, y): if domains[x] became
\* empty ac3 returns False at once; if it shrank otherwise, exactly the arcs
\* (z, x) for the neighbors z of x other than y are appended, each once;
\* if it did not shrink nothing is appended. Once ac3 has returned, no
\* further arc is revised.
C15_RequeueAfterRevise ==
    /\ [][revisions' # revisions =>
            LET x == Head(arcs)[1]
                y == Head(arcs)[2]
                appended == SubSeq(arcs', Len(arcs), Len(arcs'))
            IN IF domains'[x] # domains[x] /\ domains'[x] = {}
               THEN ac3_result' = "False" /\ pc' # "ac3"
               ELSE /\ ac3_result' = "pending" /\ pc' = "ac3"
                    /\ SubSeq(arcs', 1, Len(arcs) - 1) = Tail(arcs)
                    /\ IF domains'[x] # domains[x]
                       THEN /\ {appended[k] : k \in 1..Len(appended)}
                                 = {<<z, x>> : z \in Neighbors(x) \ {y}}
                            /\ Len(appended) = Cardinality(Neighbors(x) \ {y})
                            /\ \A k \in 1..Len(appended) : appended[k] # <<y, x>>
                       ELSE appended = <<>>]_vars
    /\ [][ac3_result # "pending" => revisions' = revisions]_vars

\* C15 witness: ac3 goes on after a revise that shrank, without emptying it,
\* the domain of a slot that has another neighbor
C15_Witness ==
    /\ pc = "ac3"
    /\ revisions # <<>>
    /\ LET call == revisions[Len(revisions)]
       IN /\ call.returned
          /\ Neighbors(call.x) \ {call.y} # {}

\* the number of (slot, word) pairs left in the domains
DomainsSize ==
    Cardinality(UNION {{<<v, w>> : w \in domains[v]} : v \in crossword.variables})

\* C16: ac3 returns, for every initial worklist: an iteration of the while
\* loop that does not return either shrinks a domain or shortens the
\* worklist without touching the domains.
C16_Ac3Terminates ==
    /\ <>(ac3_result # "pending")
    /\ [][(pc = "ac3" /\ pc' = "ac3") =>
            \/ DomainsSize' < DomainsSize
            \/ DomainsSize' = DomainsSize /\ Len(arcs') < Len(arcs)]_vars

\* C16 witness: ac3 returned after a revise had put arcs back on a worklist
\* it was called with
C16_Witness ==
    /\ ac3_result # "pending"
    /\ Len(revisions) > MaxArcs

\* over the slots of the dict a: every word has its slot's length, no word is
\* used by two slots, and crossing slots have equal letters at their overlap
PartialConsistent(a) ==
    /\ \A v \in DOMAIN a : Len(a[v]) = v.length
    /\ \A v1, v2 \in DOMAIN a : v1 # v2 => a[v1] # a[v2]
    /\ \A v1, v2 \in DOMAIN a :
          Overlap(v1, v2) # None =>
              a[v1][Overlap(v1, v2)[1] + 1] = a[v2][Overlap(v1, v2)[2] + 1]

\* the dict that assigns only across and down, two slots crossing at the
\* offsets (1, 0)
Crossing(across, down) ==
    \E x, y \in crossword.variables :
        /\ Overlap(x, y) = <<1, 0>>
        /\ assignment = [v \in {x, y} |-> IF v = x THEN across ELSE down]

\* C17: consistent(assignment) returns True exactly when the assigned slots
\* have words of their length, pairwise distinct, that agree at the overlaps
\* of assigned crossing slots; CAT across with DOG down is rejected and CAT
\* across with ACT down is accepted.
C17_ConsistentExact ==
    pc = "returned" =>
        /\ (result.kind = "True") = PartialConsistent(assignment)
        /\ result.kind \in {"True", "False"}
        /\ Crossing(CAT, DOG) => result.kind = "False"
        /\ Crossing(CAT, ACT) => result.kind = "True"

\* C17 witness: CAT across and ACT down accepted while a third slot that
\* crosses one of them is not assigned
C17_Witness ==
    /\ pc = "returned"
    /\ Crossing(CAT, ACT)
    /\ result.kind = "True"
    /\ \E v \in crossword.variables \ DOMAIN assignment : Neighbors(v) # {}

\* C18: no step of the search (a call of backtrack with its calls of
\* assignment_complete, select_unassigned_variable and order_domain_values,
\* a trial with its call of consistent, a return of None) changes the domain
\* of any slot.
C18_SearchLeavesDomains ==
    [][(pc = "backtrack" \/ pc = "loop") => domains' = domains]_vars

\* C18 witness: a search that went at least one call deep, rejected words
\* and returned None
C18_Witness ==
    /\ Returned("None")
    /\ calls >= 2
    /\ trials > calls

\* C19: between the trials of a call of backtrack, and so when it returns
\* None, the assignment is the one the call was entered with; a trial that
\* recurses has added exactly the selected slot; solve() ends with the empty
\* assignment on None and with every slot assigned on success.
C19_TentativeAssignmentUndone ==
    /\ pc = "loop" => assignment = stack[Len(stack)].entry
    /\ (pc = "backtrack" /\ stack # <<>>) =>
          LET frame == stack[Len(stack)]
          IN /\ frame.current_var \notin DOMAIN frame.entry
             /\ DOMAIN assignment = DOMAIN frame.entry \cup {frame.current_var}
             /\ \A v \in DOMAIN frame.entry : assignment[v] = frame.entry[v]
    /\ \A k \in 2..Len(stack) :
          /\ DOMAIN stack[k].entry
                = DOMAIN stack[k - 1].entry \cup {stack[k - 1].current_var}
          /\ \A v \in DOMAIN stack[k - 1].entry :
                stack[k].entry[v] = stack[k - 1].entry[v]
    /\ Returned("None") => assignment = EmptyDict
    /\ Returned("assignment") =>
          /\ result.value = assignment
          /\ DOMAIN result.value = crossword.variables

\* C19 witness: a nested call has returned None and its caller, itself a
\* nested call, is back in its loop with the assignment it was entered with
C19_Witness ==
    /\ pc = "loop"
    /\ Len(stack) >= 2
    /\ calls > Len(stack)
    /\ assignment = stack[Len(stack)].entry
    /\ assignment # EmptyDict

\* C20: the assignment of every call of backtrack on the stack, and the one
\* handed to the call being entered, has words of the slots' lengths,
\* pairwise distinct, that agree at the overlaps of assigned crossing slots;
\* the number of enclosing calls equals the number of assigned slots.
C20_StackAssignmentsConsistent ==
    /\ \A k \in 1..Len(stack) :
          /\ PartialConsistent(stack[k].entry)
          /\ Cardinality(DOMAIN stack[k].entry) = k - 1
    /\ pc = "backtrack" =>
          /\ PartialConsistent(assignment)
          /\ Cardinality(DOMAIN assignment) = Len(stack)

\* C20 witness: a call of backtrack at depth 2 is entered with two crossing
\* slots assigned, after some word was rejected
C20_Witness ==
    /\ pc = "backtrack"
    /\ Len(stack) = 2
    /\ \E v1, v2 \in DOMAIN assignment : Overlap(v1, v2) # None
    /\ trials > 2

\* the values backtrack(a) can return when the slots are enumerated in the
\* order p, over every enumeration order of the word sets: assignments,
\* and None for a failed call
RECURSIVE backtrack_results(_, _)
RECURSIVE loop_results(_, _, _, _)
backtrack_results(p, a) ==
    IF assignment_complete(a)
    THEN {a}
    ELSE LET var == select_among(SelectSeq(p, LAMBDA v : v \notin DOMAIN a))
         IN UNION {loop_results(p, a, var, values) :
                      values \in order_domain_values(var, a)}

\* the same for the for loop of backtrack(a) over the remaining values
loop_results(p, a, var, values) ==
    IF values = <<>>
    THEN {None}
    ELSE LET tried == Assign(a, var, Head(values))
             later == loop_results(p, a, var, Tail(values))
         IN IF consistent(tried)
            THEN LET inner == backtrack_results(p, tried)
                 IN (inner \ {None}) \cup (IF None \in inner THEN later ELSE {})
            ELSE later

\* propagation removes no word whatever the enumeration order: the domains
\* are the node-consistent ones and every word has a support on every arc
PropagationIdle ==
    /\ \A v \in crossword.variables : domains[v] = Fitting(v)
    /\ \A x, y \in crossword.variables :
          Overlap(x, y) # None => Supported(x, y) = domains[x]

\* C21: for a fixed grid and vocabulary the slot selected by the first call
\* of backtrack, and the assignment solve() returns, do not depend on the
\* order in which the slots and the words of a domain are enumerated.
C21_ReproducibleOutput ==
    /\ (pc = "backtrack" /\ calls = 0 /\ PropagationIdle
            /\ crossword.variables # {}) =>
          \A p \in Orderings(crossword.variables) :
              select_among(p) = select_unassigned_variable(assignment)
    /\ Returned("assignment") =>
          /\ backtrack_results(order, EmptyDict) = {result.value}
          /\ PropagationIdle =>
                \A p \in Orderings(crossword.variables) :
                    backtrack_results(p, EmptyDict) = {result.value}

\* some slot has no word left
SomeDomainEmpty == \E v \in crossword.variables : domains[v] = {}

\* C22: when a domain is empty as solve() calls backtrack(dict()), the first
\* call selects a slot with an empty domain, its for loop has nothing to
\* try, and solve() returns None after that one call, with no word ever
\* assigned and no recursive call.
C22_EmptyDomainFailsAtTopLevel ==
    (SomeDomainEmpty /\ pc \in {"backtrack", "loop", "done"}) =>
        /\ trials = 0
        /\ assignment = EmptyDict
        /\ pc = "backtrack" => calls = 0 /\ stack = <<>>
        /\ pc = "loop" =>
              /\ calls = 1
              /\ Len(stack) = 1
              /\ domains[stack[1].current_var] = {}
              /\ stack[1].ordered = <<>>
              /\ stack[1].values = <<>>
        /\ Done => Returned("None") /\ calls = 1

\* C22 witness: ac3 emptied a domain by a revise and returned False, and
\* solve() returned None from the first call of backtrack
C22_Witness ==
    /\ Returned("None")
    /\ SomeDomainEmpty
    /\ ac3_result = "False"
    /\ calls = 1
    /\ trials = 0

====
